---- MODULE Spec2Model ----
(***************************************************************************)
(* Model of flatlib/ephem/swe.py: the adapter between flatlib's domain     *)
(* vocabulary and the Swiss Ephemeris engine (pyswisseph).                 *)
(*                                                                         *)
(* Program state: the engine's process-wide ephemeris path (ephePath).     *)
(* The engine itself is an external deterministic library: its answers are *)
(* tables held in the variable `engine`, chosen in Init and never changed. *)
(* op / calls / ret observe the last adapter operation: its arguments, the *)
(* engine calls it made (with the path in force at each call) and what it  *)
(* returned or raised.  Angles are degrees on an integer grid, Julian days *)
(* and paths are small integers.                                           *)
(***************************************************************************)
EXTENDS Integers, Sequences, FiniteSets, TLC

VARIABLES ephePath, engine, op, calls, ret, lastSetPath, objSince

vars == <<ephePath, engine, op, calls, ret, lastSetPath, objSince>>

(***************************************************************************)
(* Bounds of the model                                                     *)
(***************************************************************************)
MaxPath == 2
MaxFlags == 1
GridMax == 2
FreeCusps == 6

\* the engine's built-in path, in force until set_ephe_path is called
DefaultPath == 0
Paths == 1..MaxPath
\* flatlib.const.SE_PATH, the configured path (one of the paths)
SE_PATH == 1
FlagSet == 0..MaxFlags
JDs == {2451545}
\* observer latitude and longitude (distinct, so that a swap shows)
Lats == {40}
Lons == {9}

(***************************************************************************)
(* Lookup tables                                                           *)
(***************************************************************************)
SWE_OBJECTS ==
    [o \in {"SUN", "MOON", "MERCURY", "VENUS", "MARS", "JUPITER", "SATURN",
            "URANUS", "NEPTUNE", "PLUTO", "CHIRON", "NORTH_NODE", "PHOLUS",
            "CERES", "PALLAS", "JUNO", "VESTA"} |->
       CASE o = "SUN" -> 0 [] o = "MOON" -> 1 [] o = "MERCURY" -> 2
         [] o = "VENUS" -> 3 [] o = "MARS" -> 4 [] o = "JUPITER" -> 5
         [] o = "SATURN" -> 6 [] o = "URANUS" -> 7 [] o = "NEPTUNE" -> 8
         [] o = "PLUTO" -> 9 [] o = "CHIRON" -> 15 [] o = "NORTH_NODE" -> 10
         [] o = "PHOLUS" -> 16 [] o = "CERES" -> 17 [] o = "PALLAS" -> 18
         [] o = "JUNO" -> 19 [] o = "VESTA" -> 20]

SWE_HOUSESYS ==
    [h \in {"HOUSES_PLACIDUS", "HOUSES_KOCH", "HOUSES_PORPHYRIUS",
            "HOUSES_REGIOMONTANUS", "HOUSES_CAMPANUS", "HOUSES_EQUAL",
            "HOUSES_EQUAL_2", "HOUSES_VEHLOW_EQUAL", "HOUSES_WHOLE_SIGN",
            "HOUSES_MERIDIAN", "HOUSES_AZIMUTHAL", "HOUSES_POLICH_PAGE",
            "HOUSES_ALCABITUS", "HOUSES_MORINUS"} |->
       CASE h = "HOUSES_PLACIDUS" -> "P" [] h = "HOUSES_KOCH" -> "K"
         [] h = "HOUSES_PORPHYRIUS" -> "O" [] h = "HOUSES_REGIOMONTANUS" -> "R"
         [] h = "HOUSES_CAMPANUS" -> "C" [] h = "HOUSES_EQUAL" -> "A"
         [] h = "HOUSES_EQUAL_2" -> "E" [] h = "HOUSES_VEHLOW_EQUAL" -> "V"
         [] h = "HOUSES_WHOLE_SIGN" -> "W" [] h = "HOUSES_MERIDIAN" -> "X"
         [] h = "HOUSES_AZIMUTHAL" -> "H" [] h = "HOUSES_POLICH_PAGE" -> "T"
         [] h = "HOUSES_ALCABITUS" -> "B" [] h = "HOUSES_MORINUS" -> "M"]

\* identifiers the callers pass: mapped ones and one the table lacks
ObjInputs == {"SUN", "CHIRON", "SOUTH_NODE"}
HsysInputs == {"HOUSES_PLACIDUS", "HOUSES_WHOLE_SIGN", "HOUSES_KRUSINSKI"}
CodesUsed == {SWE_OBJECTS[o] : o \in ObjInputs \cap DOMAIN SWE_OBJECTS}

NumHouses == 12
LIST_HOUSES ==
    <<"House1", "House2", "House3", "House4", "House5", "House6",
      "House7", "House8", "House9", "House10", "House11", "House12">>

\* swisseph.CALC_RISE, swisseph.CALC_SET
CALC_RISE == "CALC_RISE"
CALC_SET == "CALC_SET"
TransitFlags == {"RISE", "SET", "rise", "NOON"}

(***************************************************************************)
(* flatlib.angle                                                           *)
(***************************************************************************)
norm(a) == a % 360

distance(angle1, angle2) == norm(angle2 - angle1)


(***************************************************************************)
(* The engine's answers.  Each routine answers deterministically; what it  *)
(* answers is not the adapter's business, so the tables range over small   *)
(* sets of answers whose elements are pairwise distinct (a wrong index or  *)
(* a swapped field shows in the result).                                   *)
(***************************************************************************)
\* calc_ut returns (xx, retflag) with six coordinates, or raises
CalcOk(b) == [raise |-> FALSE, xx |-> <<b, b + 1, b + 2, b + 3, b + 4, b + 5>>, flg |-> b + 6]
CalcRaise == [raise |-> TRUE, xx |-> <<>>, flg |-> 0]
CalcAnswers == {CalcOk(10), CalcOk(200), CalcRaise}
CalcKeys == CodesUsed \X FlagSet

\* rise_trans returns (res, tret): res = 0 with the event's time in tret[0],
\* or res = -2 (no event found) with tret[0] left at zero or at whatever the
\* build leaves there; or it raises
NotFound == -2
RiseOk(res, t) == [raise |-> FALSE, res |-> res, tret |-> <<t, 0, 0, 0, 0, 0, 0, 0, 0, 0>>]
RiseRaise == [raise |-> TRUE, res |-> -1, tret |-> <<>>]
RiseAnswers == {RiseOk(0, 5), RiseOk(NotFound, 0), RiseOk(NotFound, 5), RiseRaise}

\* fixstar2_ut returns (xx, stnam, retflag)
FixOk(b) == [xx |-> <<b, b + 1, b + 2, b + 3, b + 4, b + 5>>, stnam |-> "stnam", flg |-> b + 6]
FixAnswers == {FixOk(100), FixOk(300)}
MagAnswers == {1, 2}

\* sol_eclipse_when_glob / lun_eclipse_when return (retflag, tret)
EclOk(b) == [retflag |-> b + 10, tret |-> <<b, b + 1, b + 2, b + 3, b + 4, b + 5, b + 6, b + 7, b + 8, b + 9>>]
EclAnswers == {EclOk(20), EclOk(40)}

\* houses_ex returns (cusps, ascmc): twelve cusp longitudes, and the
\* Ascendant, the Midheaven and further angles the adapter does not read
Grid == {(350 + 20 * k) % 360 : k \in 0..GridMax}
AscGrid == {0, 90, 180, 270, 359}
WholeSign == [i \in 1..NumHouses |-> 30 * (i - 1)]
HousesAnswer(hlist, a, m) == [hlist |-> hlist, ascmc |-> <<a, m, 1, 2>>]
HousesMain == {HousesAnswer(WholeSign, a, m) : a, m \in AscGrid}
\* cusp sequences whose first FreeCusps cusps range over the grid; the
\* cusps after them repeat the last of these
HLists ==
    {[i \in 1..NumHouses |-> IF i <= FreeCusps THEN f[i] ELSE f[FreeCusps]] :
        f \in [1..FreeCusps -> Grid]}
HousesWide == {HousesAnswer(h, 350, 260) : h \in HLists}

DefaultEngine ==
    [calc |-> [k \in CalcKeys |-> CalcOk(10)],
     rise |-> [r \in {CALC_RISE, CALC_SET} |-> RiseOk(0, 5)],
     houses |-> HousesAnswer(WholeSign, 0, 270),
     fixstar |-> [f \in FlagSet |-> FixOk(100)],
     mag |-> 1,
     sol |-> [b \in BOOLEAN |-> EclOk(20)],
     lun |-> [b \in BOOLEAN |-> EclOk(20)]]

\* the tables that differ from table t in the answer to one call
OneOff(t, answers) == {[t EXCEPT ![k] = a] : k \in DOMAIN t, a \in answers}

\* engines that differ from the default one in one answer
EnginesMain ==
    {[DefaultEngine EXCEPT !.calc = t] : t \in OneOff(DefaultEngine.calc, CalcAnswers)}
    \cup {[DefaultEngine EXCEPT !.rise = t] : t \in OneOff(DefaultEngine.rise, RiseAnswers)}
    \cup {[DefaultEngine EXCEPT !.houses = h] : h \in HousesMain}
    \cup {[DefaultEngine EXCEPT !.fixstar = t] : t \in OneOff(DefaultEngine.fixstar, FixAnswers)}
    \cup {[DefaultEngine EXCEPT !.mag = g] : g \in MagAnswers}
    \cup {[DefaultEngine EXCEPT !.sol = t] : t \in OneOff(DefaultEngine.sol, EclAnswers)}
    \cup {[DefaultEngine EXCEPT !.lun = t] : t \in OneOff(DefaultEngine.lun, EclAnswers)}

EnginesHouses == {[DefaultEngine EXCEPT !.houses = h] : h \in HousesWide}

(***************************************************************************)
(* Observation records                                                     *)
(***************************************************************************)
NoOp == [name |-> "init", id |-> "", jd |-> 0, lat |-> 0, lon |-> 0,
         flags |-> 0, flag |-> "", backward |-> FALSE, path |-> 0]

NoCall == [fn |-> "", path |-> 0, jd |-> 0, ipl |-> 0, lat |-> 0, lon |-> 0,
           hsys |-> "", flags |-> 0, rsmi |-> "", star |-> "",
           backward |-> FALSE, newpath |-> 0]

NoRet == [kind |-> "none", err |-> "", val |-> 0]
Value(v) == [kind |-> "value", err |-> "", val |-> v]
Raised(e) == [kind |-> "error", err |-> e, val |-> 0]
KeyError == Raised("KeyError")
EngineError == Raised("swisseph.Error")

InitWith(engines) ==
    /\ ephePath = DefaultPath
    /\ engine \in engines
    /\ op = NoOp
    /\ calls = <<>>
    /\ ret = NoRet
    /\ lastSetPath = DefaultPath
    /\ objSince = FALSE

Init == InitWith(EnginesMain)

(***************************************************************************)
(* setPath                                                                 *)
(***************************************************************************)
\* swisseph.set_ephe_path(path), issued with the path `cur` in force
set_ephe_path(path, cur) == [NoCall EXCEPT !.fn = "set_ephe_path", !.path = cur, !.newpath = path]

setPath(path) ==
    /\ ephePath' = path
    /\ op' = [NoOp EXCEPT !.name = "setPath", !.path = path]
    /\ calls' = <<set_ephe_path(path, ephePath)>>
    /\ ret' = Value(0)
    /\ lastSetPath' = path
    /\ objSince' = FALSE
    /\ UNCHANGED engine

(***************************************************************************)
(* Object functions                                                        *)
(***************************************************************************)
\* swisseph.calc_ut(jd, sweObj, flags), issued with the path `cur` in force
calc_ut(jd, sweObj, flags, cur) ==
    [NoCall EXCEPT !.fn = "calc_ut", !.path = cur, !.jd = jd, !.ipl = sweObj, !.flags = flags]

\* the record sweObject returns (Python indexes from 0, TLA+ from 1)
ObjectRecord_distance(obj, sweList, flg) ==
    [id |-> obj, lon |-> sweList[1], lat |-> sweList[2],
     lonspeed |-> sweList[3], latspeed |-> sweList[4], flg |-> flg]

ObjectRecord(obj, sweList, flg) ==
    [id |-> obj, lon |-> sweList[1], lat |-> sweList[2],
     lonspeed |-> sweList[4], latspeed |-> sweList[5], flg |-> flg]

\* faulty variant: the path is set before the lookup
sweObject_setPathFirst(obj, jd, flags) ==
    /\ op' = [NoOp EXCEPT !.name = "sweObject", !.id = obj, !.jd = jd, !.flags = flags]
    /\ ephePath' = SE_PATH
    /\ objSince' = TRUE
    /\ IF obj \notin DOMAIN SWE_OBJECTS
         THEN /\ calls' = <<set_ephe_path(SE_PATH, ephePath)>>
              /\ ret' = KeyError
         ELSE LET sweObj == SWE_OBJECTS[obj]
                  ans == engine.calc[<<sweObj, flags>>]
              IN /\ calls' = <<set_ephe_path(SE_PATH, ephePath),
                               calc_ut(jd, sweObj, flags, SE_PATH)>>
                 /\ ret' = IF ans.raise THEN EngineError
                           ELSE Value(ObjectRecord(obj, ans.xx, ans.flg))
    /\ UNCHANGED <<engine, lastSetPath>>

\* faulty variant: the path is not set
sweObject_noSetPath(obj, jd, flags) ==
    /\ op' = [NoOp EXCEPT !.name = "sweObject", !.id = obj, !.jd = jd, !.flags = flags]
    /\ IF obj \notin DOMAIN SWE_OBJECTS
         THEN /\ calls' = <<>>
              /\ ret' = KeyError
              /\ UNCHANGED objSince
         ELSE LET sweObj == SWE_OBJECTS[obj]
                  ans == engine.calc[<<sweObj, flags>>]
              IN /\ calls' = <<calc_ut(jd, sweObj, flags, ephePath)>>
                 /\ ret' = IF ans.raise THEN EngineError
                           ELSE Value(ObjectRecord(obj, ans.xx, ans.flg))
                 /\ objSince' = TRUE
    /\ UNCHANGED <<ephePath, engine, lastSetPath>>

sweObject(obj, jd, flags) ==
    /\ op' = [NoOp EXCEPT !.name = "sweObject", !.id = obj, !.jd = jd, !.flags = flags]
    /\ IF obj \notin DOMAIN SWE_OBJECTS
         THEN /\ calls' = <<>>
              /\ ret' = KeyError
              /\ UNCHANGED <<ephePath, objSince>>
         ELSE LET sweObj == SWE_OBJECTS[obj]
                  ans == engine.calc[<<sweObj, flags>>]
              IN /\ ephePath' = SE_PATH
                 /\ calls' = <<set_ephe_path(SE_PATH, ephePath),
                               calc_ut(jd, sweObj, flags, SE_PATH)>>
                 /\ ret' = IF ans.raise THEN EngineError
                           ELSE Value(ObjectRecord(obj, ans.xx, ans.flg))
                 /\ objSince' = TRUE
    /\ UNCHANGED <<engine, lastSetPath>>

\* faulty variant: the longitude-only variant sets the path as sweObject does
sweObjectLon_setsPath(obj, jd, flags) ==
    /\ op' = [NoOp EXCEPT !.name = "sweObjectLon", !.id = obj, !.jd = jd, !.flags = flags]
    /\ IF obj \notin DOMAIN SWE_OBJECTS
         THEN /\ calls' = <<>>
              /\ ret' = KeyError
              /\ UNCHANGED ephePath
         ELSE LET sweObj == SWE_OBJECTS[obj]
                  ans == engine.calc[<<sweObj, flags>>]
              IN /\ ephePath' = SE_PATH
                 /\ calls' = <<set_ephe_path(SE_PATH, ephePath),
                               calc_ut(jd, sweObj, flags, SE_PATH)>>
                 /\ ret' = IF ans.raise THEN EngineError ELSE Value(ans.xx[1])
    /\ UNCHANGED <<engine, lastSetPath, objSince>>

sweObjectLon(obj, jd, flags) ==
    /\ op' = [NoOp EXCEPT !.name = "sweObjectLon", !.id = obj, !.jd = jd, !.flags = flags]
    /\ IF obj \notin DOMAIN SWE_OBJECTS
         THEN /\ calls' = <<>>
              /\ ret' = KeyError
         ELSE LET sweObj == SWE_OBJECTS[obj]
                  ans == engine.calc[<<sweObj, flags>>]
              IN /\ calls' = <<calc_ut(jd, sweObj, flags, ephePath)>>
                 /\ ret' = IF ans.raise THEN EngineError ELSE Value(ans.xx[1])
    /\ UNCHANGED <<ephePath, engine, lastSetPath, objSince>>

\* swisseph.rise_trans(jd, sweObj, lon, lat, 0, 0, 0, flag)
rise_trans(jd, sweObj, lon, lat, rsmi, cur) ==
    [NoCall EXCEPT !.fn = "rise_trans", !.path = cur, !.jd = jd, !.ipl = sweObj,
                   !.lon = lon, !.lat = lat, !.rsmi = rsmi]

\* faulty variant: the direction is matched without regard to case
TransitFlag_anyCase(flag) ==
    IF flag \in {"RISE", "rise"} THEN CALC_RISE ELSE CALC_SET

TransitFlag(flag) == IF flag = "RISE" THEN CALC_RISE ELSE CALC_SET

sweNextTransit(obj, jd, lat, lon, flag) ==
    /\ op' = [NoOp EXCEPT !.name = "sweNextTransit", !.id = obj, !.jd = jd,
                          !.lat = lat, !.lon = lon, !.flag = flag]
    /\ IF obj \notin DOMAIN SWE_OBJECTS
         THEN /\ calls' = <<>>
              /\ ret' = KeyError
         ELSE LET sweObj == SWE_OBJECTS[obj]
                  rsmi == TransitFlag(flag)
                  trans == engine.rise[rsmi]
              IN /\ calls' = <<rise_trans(jd, sweObj, lon, lat, rsmi, ephePath)>>
                 /\ ret' = IF trans.raise THEN EngineError ELSE Value(trans.tret[1])
    /\ UNCHANGED <<ephePath, engine, lastSetPath, objSince>>

(***************************************************************************)
(* Houses and angles                                                       *)
(***************************************************************************)
\* swisseph.houses_ex(jd, lat, lon, hsys, flags)
houses_ex(jd, lat, lon, hsys, flags, cur) ==
    [NoCall EXCEPT !.fn = "houses_ex", !.path = cur, !.jd = jd, !.lat = lat,
                   !.lon = lon, !.hsys = hsys, !.flags = flags]

\* faulty variant: the size is the raw difference of the two cusps
houses_rawDifference(hlist) ==
    LET h == hlist \o <<hlist[1]>>
    IN [i \in 1..NumHouses |->
          [id |-> LIST_HOUSES[i], lon |-> h[i], size |-> h[i + 1] - h[i]]]

\* faulty variant: the distance is taken from the next cusp back to this one
houses_backward(hlist) ==
    LET h == hlist \o <<hlist[1]>>
    IN [i \in 1..NumHouses |->
          [id |-> LIST_HOUSES[i], lon |-> h[i], size |-> distance(h[i + 1], h[i])]]

\* the first cusp is appended to the twelve, then each house gets the
\* distance from its cusp to the next
houses(hlist) ==
    LET h == hlist \o <<hlist[1]>>
    IN [i \in 1..NumHouses |->
          [id |-> LIST_HOUSES[i], lon |-> h[i], size |-> distance(h[i], h[i + 1])]]

\* faulty variant: the opposite points are not normalised
angles_notNormalised(ascmc) ==
    <<[id |-> "Asc", lon |-> ascmc[1]],
      [id |-> "MC", lon |-> ascmc[2]],
      [id |-> "Desc", lon |-> ascmc[1] + 180],
      [id |-> "IC", lon |-> ascmc[2] + 180]>>

angles(ascmc) ==
    <<[id |-> "Asc", lon |-> ascmc[1]],
      [id |-> "MC", lon |-> ascmc[2]],
      [id |-> "Desc", lon |-> norm(ascmc[1] + 180)],
      [id |-> "IC", lon |-> norm(ascmc[2] + 180)]>>

anglesLon(ascmc) ==
    <<ascmc[1], ascmc[2], norm(ascmc[1] + 180), norm(ascmc[2] + 180)>>

sweHouses(jd, lat, lon, hsys, flags) ==
    /\ op' = [NoOp EXCEPT !.name = "sweHouses", !.id = hsys, !.jd = jd,
                          !.lat = lat, !.lon = lon, !.flags = flags]
    /\ IF hsys \notin DOMAIN SWE_HOUSESYS
         THEN /\ calls' = <<>>
              /\ ret' = KeyError
         ELSE LET ans == engine.houses
              IN /\ calls' = <<houses_ex(jd, lat, lon, SWE_HOUSESYS[hsys], flags, ephePath)>>
                 /\ ret' = Value(<<houses(ans.hlist), angles(ans.ascmc)>>)
    /\ UNCHANGED <<ephePath, engine, lastSetPath, objSince>>

sweHousesLon(jd, lat, lon, hsys, flags) ==
    /\ op' = [NoOp EXCEPT !.name = "sweHousesLon", !.id = hsys, !.jd = jd,
                          !.lat = lat, !.lon = lon, !.flags = flags]
    /\ IF hsys \notin DOMAIN SWE_HOUSESYS
         THEN /\ calls' = <<>>
              /\ ret' = KeyError
         ELSE LET ans == engine.houses
              IN /\ calls' = <<houses_ex(jd, lat, lon, SWE_HOUSESYS[hsys], flags, ephePath)>>
                 /\ ret' = Value(<<ans.hlist, anglesLon(ans.ascmc)>>)
    /\ UNCHANGED <<ephePath, engine, lastSetPath, objSince>>

(***************************************************************************)
(* Fixed stars                                                             *)
(***************************************************************************)
Stars == {"Spica", "Regulus"}

\* swisseph.fixstar2_ut(star, jd, flag) and swisseph.fixstar2_mag(star)
fixstar2_ut(star, jd, flag, cur) ==
    [NoCall EXCEPT !.fn = "fixstar2_ut", !.path = cur, !.star = star, !.jd = jd, !.flags = flag]

fixstar2_mag(star, cur) == [NoCall EXCEPT !.fn = "fixstar2_mag", !.path = cur, !.star = star]

\* faulty variant: the caller's flags reach the engine
FixedStarFlag_passed(flags) == flags

\* flag=0
FixedStarFlag(flags) == 0

sweFixedStar(star, jd, flags) ==
    LET flag == FixedStarFlag(flags)
        ans == engine.fixstar[flag]
        mag == engine.mag
    IN /\ op' = [NoOp EXCEPT !.name = "sweFixedStar", !.id = star, !.jd = jd, !.flags = flags]
       /\ calls' = <<fixstar2_ut(star, jd, flag, ephePath), fixstar2_mag(star, ephePath)>>
       /\ ret' = Value([id |-> star, mag |-> mag, lon |-> ans.xx[1], lat |-> ans.xx[2]])
       /\ UNCHANGED <<ephePath, engine, lastSetPath, objSince>>

(***************************************************************************)
(* Eclipses                                                                *)
(***************************************************************************)
sol_eclipse_when_glob(jd, backward, cur) ==
    [NoCall EXCEPT !.fn = "sol_eclipse_when_glob", !.path = cur, !.jd = jd, !.backward = backward]

lun_eclipse_when(jd, backward, cur) ==
    [NoCall EXCEPT !.fn = "lun_eclipse_when", !.path = cur, !.jd = jd, !.backward = backward]

solarEclipseGlobal(jd, backward) ==
    LET sweList == engine.sol[backward]
    IN /\ op' = [NoOp EXCEPT !.name = "solarEclipseGlobal", !.jd = jd, !.backward = backward]
       /\ calls' = <<sol_eclipse_when_glob(jd, backward, ephePath)>>
       /\ ret' = Value([maximum |-> sweList.tret[1],
                        begin |-> sweList.tret[3],
                        end |-> sweList.tret[4],
                        totality_begin |-> sweList.tret[5],
                        totality_end |-> sweList.tret[6],
                        center_line_begin |-> sweList.tret[7],
                        center_line_end |-> sweList.tret[8]])
       /\ UNCHANGED <<ephePath, engine, lastSetPath, objSince>>

lunarEclipseGlobal(jd, backward) ==
    LET sweList == engine.lun[backward]
    IN /\ op' = [NoOp EXCEPT !.name = "lunarEclipseGlobal", !.jd = jd, !.backward = backward]
       /\ calls' = <<lun_eclipse_when(jd, backward, ephePath)>>
       /\ ret' = Value([maximum |-> sweList.tret[1],
                        partial_begin |-> sweList.tret[3],
                        partial_end |-> sweList.tret[4],
                        totality_begin |-> sweList.tret[5],
                        totality_end |-> sweList.tret[6],
                        penumbral_begin |-> sweList.tret[7],
                        penumbral_end |-> sweList.tret[8]])
       /\ UNCHANGED <<ephePath, engine, lastSetPath, objSince>>

(***************************************************************************)
(* Specifications                                                          *)
(***************************************************************************)
Next ==
    \/ \E path \in Paths : setPath(path)
    \/ \E obj \in ObjInputs, jd \in JDs, flags \in FlagSet : sweObject(obj, jd, flags)
    \/ \E obj \in ObjInputs, jd \in JDs, flags \in FlagSet : sweObjectLon(obj, jd, flags)
    \/ \E obj \in ObjInputs, jd \in JDs, lat \in Lats, lon \in Lons, flag \in TransitFlags :
          sweNextTransit(obj, jd, lat, lon, flag)
    \/ \E jd \in JDs, lat \in Lats, lon \in Lons, hsys \in HsysInputs, flags \in FlagSet :
          sweHouses(jd, lat, lon, hsys, flags)
    \/ \E jd \in JDs, lat \in Lats, lon \in Lons, hsys \in HsysInputs, flags \in FlagSet :
          sweHousesLon(jd, lat, lon, hsys, flags)
    \/ \E star \in Stars, jd \in JDs, flags \in FlagSet : sweFixedStar(star, jd, flags)
    \/ \E jd \in JDs, backward \in BOOLEAN : solarEclipseGlobal(jd, backward)
    \/ \E jd \in JDs, backward \in BOOLEAN : lunarEclipseGlobal(jd, backward)

Spec == Init /\ [][Next]_vars

\* the houses queries alone, over every cusp sequence of the grid
InitHouses == InitWith(EnginesHouses)

NextHouses ==
    \/ \E jd \in JDs, lat \in Lats, lon \in Lons, hsys \in HsysInputs, flags \in FlagSet :
          sweHouses(jd, lat, lon, hsys, flags)
    \/ \E jd \in JDs, lat \in Lats, lon \in Lons, hsys \in HsysInputs, flags \in FlagSet :
          sweHousesLon(jd, lat, lon, hsys, flags)

SpecHouses == InitHouses /\ [][NextHouses]_vars

(***************************************************************************)
(* Properties                                                              *)
(***************************************************************************)
Mapped == op.id \in DOMAIN SWE_OBJECTS
HousesReturned == op.name = "sweHouses" /\ ret.kind = "value"

RECURSIVE SizeSum(_, _)
SizeSum(hs, n) == IF n = 0 THEN 0 ELSE hs[n].size + SizeSum(hs, n - 1)

\* the cusp that follows cusp i, the twelfth being followed by the first
NextCusp(hlist, i) == hlist[(i % NumHouses) + 1]

\* the number of cusps followed by a smaller cusp longitude
Wraps(hlist) == Cardinality({i \in 1..NumHouses : NextCusp(hlist, i) < hlist[i]})

\* C1 as stated: whatever twelve cusps the engine returns, the twelve
\* sizes sweHouses returns sum to 360
C1_SizesSumTo360 ==
    HousesReturned => SizeSum(ret.val[1], NumHouses) = 360

\* C1 amended: the twelve sizes sum to 360 times the number of cusps that
\* are followed by a smaller cusp longitude; so to 360 exactly when the
\* cusps go once round the circle, and to 0 when they all coincide
C1_SizesSumToWraps ==
    HousesReturned =>
        LET hlist == engine.houses.hlist
            total == SizeSum(ret.val[1], NumHouses)
        IN /\ total = 360 * Wraps(hlist)
           /\ (Wraps(hlist) = 1 <=> total = 360)
           /\ ((\A i \in 1..NumHouses : hlist[i] = hlist[1]) => total = 0)

C1_Witness ==
    /\ HousesReturned
    /\ Wraps(engine.houses.hlist) = 1
    /\ \E i, j \in 1..NumHouses : engine.houses.hlist[i] # engine.houses.hlist[j]
    /\ SizeSum(ret.val[1], NumHouses) = 360

\* C10: each size sweHouses returns is the distance from the house's cusp
\* forward to the next cusp modulo 360: at least 0, less than 360, and from
\* 350 to 10 it is 20
C10_SizeIsForwardDistance ==
    HousesReturned =>
        \A i \in 1..NumHouses :
            LET cusp == engine.houses.hlist[i]
                next == NextCusp(engine.houses.hlist, i)
                size == ret.val[1][i].size
            IN /\ ret.val[1][i].lon = cusp
               /\ ret.val[1][i].id = LIST_HOUSES[i]
               /\ 0 <= size /\ size < 360
               /\ size = IF next >= cusp THEN next - cusp ELSE next - cusp + 360
               /\ (cusp = 350 /\ next = 10 => size = 20)

C10_Witness ==
    /\ HousesReturned
    /\ \E i \in 1..NumHouses :
          /\ engine.houses.hlist[i] = 350
          /\ NextCusp(engine.houses.hlist, i) = 10
          /\ ret.val[1][i].size = 20

\* the point opposite to longitude a, a in [0, 360)
Opposite(a) == IF a + 180 >= 360 THEN a - 180 ELSE a + 180

\* C6: sweHouses and sweHousesLon return the angles in the order Ascendant,
\* Midheaven, Descendant, Imum Coeli; the first two are the engine's values,
\* the last two are the points opposite to them, in [0, 360)
C6_OppositeAngles ==
    LET A == engine.houses.ascmc[1]
        M == engine.houses.ascmc[2]
        lons == IF op.name = "sweHouses"
                  THEN [i \in 1..Len(ret.val[2]) |-> ret.val[2][i].lon]
                  ELSE ret.val[2]
    IN op.name \in {"sweHouses", "sweHousesLon"} /\ ret.kind = "value" =>
          /\ lons = <<A, M, Opposite(A), Opposite(M)>>
          /\ \A i \in {3, 4} : lons[i] >= 0 /\ lons[i] < 360
          /\ op.name = "sweHouses" =>
                [i \in 1..Len(ret.val[2]) |-> ret.val[2][i].id] = <<"Asc", "MC", "Desc", "IC">>

C6_Witness ==
    /\ HousesReturned
    /\ engine.houses.ascmc[1] = 270
    /\ engine.houses.ascmc[2] = 0
    /\ ret.val[2][3].lon = 90
    /\ ret.val[2][4].lon = 180

\* C2 as stated: when rise_trans reports in its result that it found no
\* event, sweNextTransit hands that failure on: it raises, or what it
\* returns is the engine's failure status, never a plain Julian-day value
C2_FailureReachesCaller ==
    op.name = "sweNextTransit" /\ Mapped =>
        LET trans == engine.rise[calls[1].rsmi]
        IN ~trans.raise /\ trans.res = NotFound =>
              ret.kind = "error" \/ (ret.kind = "value" /\ ret.val = trans.res)

\* every engine call of the last operation other than set_ephe_path ran
\* with path p in force
QueriesRanWith(p) ==
    \A i \in 1..Len(calls) : calls[i].fn # "set_ephe_path" => calls[i].path = p

\* C3 as stated: once setPath(p) was called, every engine call runs with
\* path p until the next setPath call
C3_PathOfLastSetPath ==
    lastSetPath # DefaultPath => QueriesRanWith(lastSetPath)

\* C3 amended: every engine call runs with the path of the last setPath
\* call (the engine's own path before the first), until sweObject is called
\* with a mapped body: its engine call and every later one run with
\* SE_PATH, until the next setPath call
C3_PathOfLastSetPathOrObject ==
    QueriesRanWith(IF objSince THEN SE_PATH ELSE lastSetPath)

C3_Witness ==
    /\ lastSetPath \notin {DefaultPath, SE_PATH}
    /\ objSince
    /\ op.name = "sweObjectLon"
    /\ Len(calls) = 1
    /\ calls[1].path = SE_PATH

LookupNames == {"sweObject", "sweObjectLon", "sweNextTransit", "sweHouses", "sweHousesLon"}

\* the identifier of the last operation is absent from its lookup table
UnmappedAfter ==
    \/ op'.name \in {"sweObject", "sweObjectLon", "sweNextTransit"}
         /\ op'.id \notin DOMAIN SWE_OBJECTS
    \/ op'.name \in {"sweHouses", "sweHousesLon"}
         /\ op'.id \notin DOMAIN SWE_HOUSESYS

\* C4: an operation given an identifier its lookup table lacks raises the
\* lookup error, makes no engine call and leaves the engine's path alone
C4_UnknownSymbolFailsFirst ==
    [][UnmappedAfter =>
          /\ ret' = KeyError
          /\ calls' = <<>>
          /\ ephePath' = ephePath]_vars

C4_Witness ==
    /\ op.name = "sweObject"
    /\ op.id \notin DOMAIN SWE_OBJECTS
    /\ ret = KeyError
    /\ calls = <<>>
    /\ ephePath \notin {DefaultPath, SE_PATH}

QueryNames == LookupNames \cup {"sweFixedStar", "solarEclipseGlobal", "lunarEclipseGlobal"}

\* C5: sweObject with a mapped body sets the engine's path to SE_PATH and
\* then makes its position call, which runs with SE_PATH; no other query
\* calls set_ephe_path or changes the path
C5_OnlyObjectWritesPath ==
    [][/\ op'.name \in QueryNames \ {"sweObject"} =>
            /\ ephePath' = ephePath
            /\ \A i \in 1..Len(calls') : calls'[i].fn # "set_ephe_path"
       /\ op'.name = "sweObject" /\ op'.id \in DOMAIN SWE_OBJECTS =>
            /\ ephePath' = SE_PATH
            /\ Len(calls') = 2
            /\ calls'[1].fn = "set_ephe_path" /\ calls'[1].newpath = SE_PATH
            /\ calls'[2].fn = "calc_ut" /\ calls'[2].path = SE_PATH]_vars

C5_Witness ==
    /\ op.name = "sweObject"
    /\ ret.kind = "value"
    /\ lastSetPath \notin {DefaultPath, SE_PATH}
    /\ calls[1].path = lastSetPath
    /\ calls[2].path = SE_PATH
    /\ ephePath = SE_PATH

\* what the engine's answer to a rise_trans call becomes
TransitResult(trans) == IF trans.raise THEN EngineError ELSE Value(trans.tret[1])

\* C7: sweNextTransit asks for the rise exactly when the flag is 'RISE';
\* any other flag gives the call and the result of 'SET', and the flag
\* never makes the operation fail
C7_RiseOnlyForRISE ==
    op.name = "sweNextTransit" /\ Mapped =>
        /\ Len(calls) = 1
        /\ calls[1].rsmi = CALC_RISE <=> op.flag = "RISE"
        /\ op.flag = "RISE" => ret = TransitResult(engine.rise[CALC_RISE])
        /\ op.flag # "RISE" =>
              /\ calls[1] = rise_trans(op.jd, SWE_OBJECTS[op.id], op.lon, op.lat,
                                       CALC_SET, ephePath)
              /\ ret = TransitResult(engine.rise[CALC_SET])
        /\ ret.kind = "error" => engine.rise[calls[1].rsmi].raise

C7_Witness ==
    /\ op.name = "sweNextTransit"
    /\ op.flag = "rise"
    /\ Mapped
    /\ engine.rise[CALC_RISE] # engine.rise[CALC_SET]
    /\ ~engine.rise[CALC_SET].raise
    /\ ret = Value(engine.rise[CALC_SET].tret[1])

\* C8: whatever flags the caller gives, sweFixedStar asks the engine for
\* the star's position with flag 0 and returns the record made of that
\* answer, so calls that differ in the flags alone return the same record
C8_FlagsIgnored ==
    op.name = "sweFixedStar" =>
        /\ Len(calls) = 2
        /\ calls[1] = fixstar2_ut(op.id, op.jd, 0, ephePath)
        /\ calls[2] = fixstar2_mag(op.id, ephePath)
        /\ ret = Value([id |-> op.id, mag |-> engine.mag,
                        lon |-> engine.fixstar[0].xx[1],
                        lat |-> engine.fixstar[0].xx[2]])

C8_Witness ==
    /\ op.name = "sweFixedStar"
    /\ op.flags # 0
    /\ engine.fixstar[op.flags] # engine.fixstar[0]
    /\ ret.val.lon = engine.fixstar[0].xx[1]

\* C9: for a mapped body and an engine answer (t, f), sweObject passes the
\* caller's flags to the engine and returns id = the caller's identifier,
\* lon = t[0], lat = t[1], lonspeed = t[3], latspeed = t[4], flg = f, and
\* the distance t[2] is in no field
C9_ObjectRecord ==
    op.name = "sweObject" /\ Mapped =>
        LET ans == engine.calc[<<SWE_OBJECTS[op.id], op.flags>>]
            t == ans.xx
        IN /\ calls[2] = calc_ut(op.jd, SWE_OBJECTS[op.id], op.flags, SE_PATH)
           /\ ans.raise => ret = EngineError
           /\ ~ans.raise =>
                 /\ ret.kind = "value"
                 /\ DOMAIN ret.val = {"id", "lon", "lat", "lonspeed", "latspeed", "flg"}
                 /\ ret.val.id = op.id
                 /\ ret.val.lon = t[1]
                 /\ ret.val.lat = t[2]
                 /\ ret.val.lonspeed = t[4]
                 /\ ret.val.latspeed = t[5]
                 /\ ret.val.flg = ans.flg
                 /\ \A f \in {"lon", "lat", "lonspeed", "latspeed", "flg"} : ret.val[f] # t[3]

C9_Witness ==
    /\ op.name = "sweObject"
    /\ op.id = "CHIRON"
    /\ op.flags # 0
    /\ ret.kind = "value"
    /\ engine.calc[<<SWE_OBJECTS[op.id], op.flags>>] = CalcOk(200)
    /\ ret.val.lonspeed = 203

====
